---- MODULE Spec2Model ----
(***************************************************************************)
(* Model of jfor_semicolons.py: the JFOR line interpreter.  A program is a *)
(* list of lines; _exec_lines walks a list, _collect_block finds the body  *)
(* of a loop header, _run_block runs a body.  The Python call stack        *)
(* (run -> _exec_lines -> loop -> _run_block -> _exec_lines ...) is the    *)
(* variable `stack`; every action is one step of the interpreter.          *)
(* Indices are 0-based as in the source; lines[i] of the source is         *)
(* lines[i+1] here.                                                        *)
(***************************************************************************)
EXTENDS Integers, Sequences, FiniteSets, TLC

\* ---------------------------------------------------------------- bounds
MaxLen == 4
MaxSteps == 90

\* ---------------------------------------------------------------- values
\* Python values the programs of the model can produce: int, bool, list of int.
IntV(k) == [t |-> "int", n |-> k, s |-> <<>>]
BoolV(b) == [t |-> "bool", n |-> IF b THEN 1 ELSE 0, s |-> <<>>]
ListV(q) == [t |-> "list", n |-> 0, s |-> q]
Undef == [t |-> "undef", n |-> 0, s |-> <<>>]

IsNum(v) == v.t \in {"int", "bool"}

\* bool(v)
Truthy(v) == IF v.t = "list" THEN Len(v.s) > 0 ELSE v.n # 0

\* ----------------------------------------------------------- expressions
\* Expression texts, by shape: a literal, a list literal, NAME, NAME + k,
\* NAME < k, NAME > k, NAME == k, the unparsable text "= k", no text at all.
NoExpr == [op |-> "none", n |-> "", k |-> 0, s |-> <<>>]
Lit(k) == [op |-> "lit", n |-> "", k |-> k, s |-> <<>>]
ListLit(q) == [op |-> "list", n |-> "", k |-> 0, s |-> q]
VarE(x) == [op |-> "var", n |-> x, k |-> 0, s |-> <<>>]
Add(x, k) == [op |-> "add", n |-> x, k |-> k, s |-> <<>>]
Lt(x, k) == [op |-> "lt", n |-> x, k |-> k, s |-> <<>>]
Gt(x, k) == [op |-> "gt", n |-> x, k |-> k, s |-> <<>>]
EqE(x, k) == [op |-> "eq", n |-> x, k |-> k, s |-> <<>>]
Junk(k) == [op |-> "junk", n |-> "", k |-> k, s |-> <<>>]

Vars == {"i", "j", "x", "w"}

EmptyEnv == [v \in Vars |-> Undef]

Ok(v) == [ok |-> TRUE, val |-> v, err |-> "none"]
Fail(e) == [ok |-> FALSE, val |-> Undef, err |-> e]

\* eval(expr, {}, self.env)
eval(e, env) ==
  CASE e.op = "lit" -> Ok(IntV(e.k))
    [] e.op = "list" -> Ok(ListV(e.s))
    [] e.op \in {"junk", "none"} -> Fail("SyntaxError")
    [] OTHER ->
         LET v == env[e.n] IN
         IF v.t = "undef" THEN Fail("NameError")
         ELSE CASE e.op = "var" -> Ok(v)
                [] e.op = "add" -> IF IsNum(v) THEN Ok(IntV(v.n + e.k))
                                   ELSE Fail("TypeError")
                [] e.op = "lt" -> IF IsNum(v) THEN Ok(BoolV(v.n < e.k))
                                  ELSE Fail("TypeError")
                [] e.op = "gt" -> IF IsNum(v) THEN Ok(BoolV(v.n > e.k))
                                  ELSE Fail("TypeError")
                [] e.op = "eq" -> Ok(BoolV(IsNum(v) /\ v.n = e.k))

\* ----------------------------------------------------------------- lines
\* A clause of a C-style header: empty, NAME = EXPR, or a bare expression.
NoClause == [form |-> "empty", name |-> "", e |-> NoExpr]
AssignC(x, e) == [form |-> "assign", name |-> x, e |-> e]
ExprC(e) == [form |-> "expr", name |-> "", e |-> e]

Line(k, x, e1, e2, e3, c1, c3) ==
  [k |-> k, var |-> x, e1 |-> e1, e2 |-> e2, e3 |-> e3, c1 |-> c1, c3 |-> c3]

Counter(x, a, b, s) == Line("counter", x, a, b, s, NoClause, NoClause)
Iter(x, e) == Line("iter", x, e, NoExpr, NoExpr, NoClause, NoClause)
CStyle(c1, cond, c3) == Line("cstyle", "", NoExpr, cond, NoExpr, c1, c3)
EndL == Line("end", "", NoExpr, NoExpr, NoExpr, NoClause, NoClause)
PrintL(e) == Line("print", "", e, NoExpr, NoExpr, NoClause, NoClause)
AssignL(x, e) == Line("assign", x, e, NoExpr, NoExpr, NoClause, NoClause)
BlankL == Line("blank", "", NoExpr, NoExpr, NoExpr, NoClause, NoClause)
BadL == Line("bad", "", NoExpr, NoExpr, NoExpr, NoClause, NoClause)

\* The regexes of the source, on the shapes above.
RX_FOR_COUNTER(ln) == ln.k = "counter"
RX_FOR_ITER(ln) == ln.k = "iter"
RX_FOR_CSTYLE(ln) == ln.k = "cstyle"
RX_END(ln) == ln.k = "end"
RX_PRINT(ln) == ln.k = "print"
RX_ASSIGN(ln) == ln.k = "assign"

IsHeader(ln) == RX_FOR_COUNTER(ln) \/ RX_FOR_ITER(ln) \/ RX_FOR_CSTYLE(ln)

\* do_assign: a clause text to None, ("expr", s) or ("assign", name, rhs).
\* RX_ASSIGN also matches the bare expression NAME == k: the name, then "= k".
do_assign(c) ==
  IF c.form = "empty" THEN NoClause
  ELSE IF c.form = "assign" THEN c
  ELSE IF c.e.op = "eq" THEN AssignC(c.e.n, Junk(c.e.k))
  ELSE c

\* --------------------------------------------------------- _collect_block
\* _collect_block with a depth counter that headers do not raise.
RECURSIVE CollectScanFlat(_, _, _, _)
CollectScanFlat(lines, i, depth, block) ==
  IF i >= Len(lines) THEN [ok |-> FALSE, block |-> block, next |-> i]
  ELSE LET ln == lines[i + 1]
           d2 == IF RX_END(ln) THEN depth - 1 ELSE depth
       IN IF RX_END(ln) /\ d2 = 0
          THEN [ok |-> TRUE, block |-> block, next |-> i + 1]
          ELSE CollectScanFlat(lines, i + 1, d2, Append(block, ln))

\* _collect_block taking the end of the text for the terminator.
RECURSIVE CollectScanEof(_, _, _, _)
CollectScanEof(lines, i, depth, block) ==
  IF i >= Len(lines) THEN [ok |-> TRUE, block |-> block, next |-> i]
  ELSE LET ln == lines[i + 1]
           d1 == IF IsHeader(ln) THEN depth + 1 ELSE depth
           d2 == IF RX_END(ln) THEN d1 - 1 ELSE d1
       IN IF RX_END(ln) /\ d2 = 0
          THEN [ok |-> TRUE, block |-> block, next |-> i + 1]
          ELSE CollectScanEof(lines, i + 1, d2, Append(block, ln))

\* _collect_block refusing a block that holds an unrecognized line.
RECURSIVE CollectScanStrict(_, _, _, _)
CollectScanStrict(lines, i, depth, block) ==
  IF i >= Len(lines) THEN [ok |-> FALSE, block |-> block, next |-> i]
  ELSE LET ln == lines[i + 1]
           d1 == IF IsHeader(ln) THEN depth + 1 ELSE depth
           d2 == IF RX_END(ln) THEN d1 - 1 ELSE d1
       IN IF ln.k = "bad" THEN [ok |-> FALSE, block |-> block, next |-> i]
          ELSE IF RX_END(ln) /\ d2 = 0
          THEN [ok |-> TRUE, block |-> block, next |-> i + 1]
          ELSE CollectScanStrict(lines, i + 1, d2, Append(block, ln))

\* _collect_block keeping the closing terminator in the block.
RECURSIVE CollectScanKeepEnd(_, _, _, _)
CollectScanKeepEnd(lines, i, depth, block) ==
  IF i >= Len(lines) THEN [ok |-> FALSE, block |-> block, next |-> i]
  ELSE LET ln == lines[i + 1]
           d1 == IF IsHeader(ln) THEN depth + 1 ELSE depth
           d2 == IF RX_END(ln) THEN d1 - 1 ELSE d1
       IN IF RX_END(ln) /\ d2 = 0
          THEN [ok |-> TRUE, block |-> Append(block, ln), next |-> i + 1]
          ELSE CollectScanKeepEnd(lines, i + 1, d2, Append(block, ln))

RECURSIVE CollectScan(_, _, _, _)
CollectScan(lines, i, depth, block) ==
  IF i >= Len(lines) THEN [ok |-> FALSE, block |-> block, next |-> i]
  ELSE LET ln == lines[i + 1]
           d1 == IF IsHeader(ln) THEN depth + 1 ELSE depth
           d2 == IF RX_END(ln) THEN d1 - 1 ELSE d1
       IN IF RX_END(ln) /\ d2 = 0
          THEN [ok |-> TRUE, block |-> block, next |-> i + 1]
          ELSE CollectScan(lines, i + 1, d2, Append(block, ln))

collect_block(lines, i) == CollectScan(lines, i, 1, <<>>)

\* -------------------------------------------------------------- programs
\* Lines the enumerated programs are built from.
Alphabet ==
  { Counter("i", Lit(1), Lit(2), NoExpr),
    Counter("j", Lit(2), Lit(1), Lit(-1)),
    Counter("i", Lit(2), Lit(1), VarE("x")),
    Iter("w", ListLit(<<1, 2>>)),
    CStyle(AssignC("j", Lit(0)), Lt("j", 2), AssignC("j", Add("j", 1))),
    EndL, PrintL(VarE("i")), AssignL("x", Lit(0)), BadL, BlankL }

Enumerated == UNION { [1..n -> Alphabet] : n \in 0..MaxLen }

\* Two sequential top-level loops, each containing one nested loop.
NestTwice ==
  << Counter("i", Lit(1), Lit(2), NoExpr),
       Counter("j", Lit(1), Lit(2), NoExpr),
         PrintL(VarE("j")),
       EndL,
       PrintL(VarE("i")),
     EndL,
     Iter("w", ListLit(<<7, 8>>)),
       CStyle(AssignC("x", Lit(0)), Lt("x", 2), AssignC("x", Add("x", 1))),
         PrintL(VarE("x")),
       EndL,
       PrintL(VarE("w")),
     EndL >>

\* The DEMO text of the source, with shorter ranges.
Demo ==
  << BlankL,
     Counter("i", Lit(1), Lit(5), Lit(2)), PrintL(VarE("i")), EndL,
     Iter("w", ListLit(<<4, 6, 5>>)), PrintL(Add("w", 1)), EndL,
     CStyle(AssignC("j", Lit(0)), Lt("j", 3), AssignC("j", Add("j", 1))),
       PrintL(VarE("j")), EndL,
     AssignL("x", Lit(2)),
     CStyle(NoClause, Gt("x", 0), NoClause),
       PrintL(VarE("x")), AssignL("x", Add("x", -1)), EndL >>

\* An unrecognized line two loops deep.
DeepBad ==
  << PrintL(Lit(9)),
     Counter("i", Lit(1), Lit(2), NoExpr),
       Iter("w", ListLit(<<5>>)),
         PrintL(VarE("w")),
         BadL,
       EndL,
     EndL >>

\* A complete loop, then a header whose terminator is missing.
NoEnd ==
  << Counter("i", Lit(1), Lit(1), NoExpr), PrintL(VarE("i")), EndL,
     Iter("w", ListLit(<<1>>)),
       Counter("j", Lit(1), Lit(2), NoExpr), PrintL(VarE("j")), EndL,
     PrintL(Lit(3)) >>

\* Loops that iterate zero times, each followed by a statement.
ZeroTrips ==
  << Counter("i", Lit(3), Lit(1), NoExpr), PrintL(Lit(1)), BadL, EndL,
     PrintL(Lit(2)),
     Counter("j", Lit(1), Lit(3), Lit(-1)), PrintL(Lit(3)), EndL,
     PrintL(Lit(4)),
     Iter("w", ListLit(<<>>)), PrintL(Lit(5)), EndL,
     PrintL(Lit(6)),
     Counter("x", Lit(3), Lit(0), Lit(-2)), PrintL(VarE("x")), EndL,
     Iter("w", ListLit(<<4, 6, 5>>)), PrintL(VarE("w")), EndL >>

\* Clauses that are bare expressions, and a condition that is always true.
Clauses ==
  { << AssignL("x", Lit(1)),
       CStyle(ExprC(VarE("x")), Gt("x", 0), ExprC(EqE("x", 1))),
         AssignL("x", Add("x", -1)),
       EndL >>,
    << AssignL("x", Lit(0)),
       CStyle(ExprC(Lt("x", 1)), Lt("x", 2), ExprC(Add("x", 1))),
         AssignL("x", Add("x", 1)),
       EndL,
       PrintL(VarE("x")),
       CStyle(NoClause, NoExpr, NoClause), EndL,
       PrintL(VarE("x")) >>,
    << CStyle(ExprC(VarE("x")), NoExpr, NoClause), EndL >>,
    << CStyle(NoClause, VarE("x"), NoClause), EndL >>,
    << CStyle(AssignC("x", Lit(1)), VarE("x"), AssignC("x", VarE("j"))), EndL >> }

\* Values that are not numbers or not iterable, and a step that is zero.
BadTypes ==
  { << Iter("w", Lit(3)), PrintL(VarE("w")), EndL >>,
    << Counter("i", Lit(1), Lit(2), ListLit(<<1>>)), EndL >>,
    << Counter("i", ListLit(<<1>>), ListLit(<<2>>), NoExpr), PrintL(VarE("i")), EndL >>,
    << Counter("i", Lit(1), ListLit(<<2>>), NoExpr), PrintL(VarE("i")), EndL >>,
    << AssignL("x", Lt("j", 1)) >>,
    << AssignL("j", Lit(0)), AssignL("x", Lt("j", 1)),
       Counter("i", VarE("j"), VarE("x"), VarE("x")), PrintL(VarE("i")), EndL >>,
    << Counter("i", Lit(5), Lit(1), Lit(0)), PrintL(Lit(1)), EndL, PrintL(Lit(2)) >>,
    << PrintL(Lit(1)), Counter("i", Lit(1), Lit(5), Lit(0)), PrintL(Lit(1)) >>,
    << AssignL("j", Lit(0)), AssignL("x", Lt("j", 0)),
       Counter("i", Lit(1), Lit(1), VarE("x")), PrintL(Lit(1)), EndL >> }

\* An inner header whose end is the outer loop's variable.
Triangle ==
  << Counter("i", Lit(1), Lit(3), NoExpr),
       Counter("j", Lit(1), VarE("i"), NoExpr),
         PrintL(VarE("j")),
       EndL,
     EndL >>

\* An inner header whose start is a variable the outer body assigns.
Accum ==
  << AssignL("x", Lit(0)),
     Iter("w", ListLit(<<5, 6>>)),
       AssignL("x", Add("x", 1)),
       Counter("j", VarE("x"), Lit(2), NoExpr),
         PrintL(VarE("j")),
       EndL,
     EndL >>

\* A counter loop whose body assigns the loop variable and the variable its
\* end was evaluated from.
Rebind ==
  << AssignL("x", Lit(3)),
     Counter("i", Lit(1), VarE("x"), NoExpr),
       AssignL("i", Add("i", 5)),
       AssignL("x", Lit(0)),
       PrintL(VarE("i")),
     EndL,
     PrintL(VarE("i")) >>

\* A C-style loop whose body assigns the variable of its condition and step.
CRebind ==
  << CStyle(AssignC("j", Lit(0)), Lt("j", 2), AssignC("j", Add("j", 1))),
       AssignL("j", Add("j", 1)),
       PrintL(VarE("j")),
     EndL >>

\* An unrecognized line in the body of an inner loop that iterates zero
\* times, on each iteration of an outer loop.
LazyNested ==
  << Counter("i", Lit(1), Lit(2), NoExpr),
       Counter("j", Lit(2), Lit(1), NoExpr), BadL, EndL,
       PrintL(VarE("i")),
     EndL >>

\* A C-style loop with an empty condition, a body and a step that raise no
\* error, and a statement after its terminator.
Forever ==
  << CStyle(AssignC("j", Lit(0)), NoExpr, AssignC("j", Add("j", 1))),
       PrintL(VarE("j")),
     EndL,
     PrintL(Lit(9)) >>

\* Nested loops, then a terminator that closes nothing.
NestedStray ==
  << Counter("i", Lit(1), Lit(2), NoExpr),
       Iter("w", ListLit(<<1>>)),
         PrintL(VarE("w")),
       EndL,
     EndL,
     EndL,
     PrintL(Lit(7)) >>

\* An unrecognized line in a body that never runs, and one that is reached.
LazyThenBad ==
  << Counter("i", Lit(2), Lit(1), NoExpr), BadL, EndL,
     PrintL(Lit(1)),
     Iter("w", ListLit(<<>>)), EndL,
     BadL,
     PrintL(Lit(2)) >>

\* Programs whose unrecognized lines are all inside bodies that never run.
LazySkips ==
  { ZeroTrips,
    << Iter("w", ListLit(<<>>)),
         Counter("i", Lit(1), Lit(2), NoExpr), BadL, EndL,
         BadL,
       EndL,
       PrintL(Lit(1)) >>,
    << AssignL("x", Lit(0)),
       CStyle(NoClause, Gt("x", 0), NoClause), BadL, EndL,
       PrintL(VarE("x")) >>,
    LazyNested }

Suite ==
  { NestTwice, Demo, DeepBad, NoEnd, ZeroTrips, Triangle, Accum, Rebind, CRebind }
    \cup Clauses \cup BadTypes \cup LazySkips \cup { LazyThenBad, Forever, NestedStray }

Programs == Enumerated \cup Suite

\* ------------------------------------------------------------------ state
VARIABLES
  prog,    \* the program text: src.splitlines()
  stack,   \* the active _exec_lines calls, outermost first, each with the loop it is in
  env,     \* self.env
  out,     \* what print has written, each value with the place that wrote it
  status,  \* "running", "done", or "error" once an exception has been raised
  err,     \* the exception raised
  log,     \* history: the loop events so far
  loops,   \* history: one record per header executed, in order
  steps    \* number of steps taken

vars == <<prog, stack, env, out, status, err, log, loops, steps>>

\* lineno and text are what the message of the exception cites; cited is the
\* expression text the exception carries; abs and expr are history: the
\* position in the program text of the line being executed, and the
\* expression being evaluated.
NoErr == [kind |-> "none", msg |-> "none", lineno |-> 0, text |-> BlankL, abs |-> 0,
          expr |-> NoExpr, cited |-> NoExpr]

\* The local variables of one _exec_lines call and of the loop it is running.
\* base, hdr, bbase, id and iters are history: where lines[0] and the loop's
\* header and body sit in the program text, which header execution this is,
\* and how many times its body has been started.
Frame(lines, i, base) ==
  [lines |-> lines, i |-> i, base |-> base, lk |-> "none", ph |-> "none",
   var |-> "", n |-> Undef, end |-> Undef, step |-> Undef, itv |-> Undef,
   idx |-> 0, block |-> <<>>, init |-> NoClause, cond |-> NoExpr,
   stp |-> NoClause, hdr |-> 0, bbase |-> 0, id |-> 0, iters |-> 0]

Top == stack[Len(stack)]
SetTop(f) == [stack EXCEPT ![Len(stack)] = f]
Push(f, body) == Append(SetTop(f), body)
Cur == Top.lines[Top.i + 1]

\* A run that goes on after an exception.
RunningAnyway == steps < MaxSteps

\* The interpreter is still executing: no exception has been raised, and the
\* text has not been run to its end.
Running == status = "running" /\ steps < MaxSteps
AtLine == Running /\ Top.lk = "none" /\ Top.i < Len(Top.lines)

\* Leave the loop of frame f: the `continue` after the loop, at the index
\* _collect_block returned.
Leave(f) == Frame(f.lines, f.i, f.base)

Event(e, id, v) == [e |-> e, id |-> id, v |-> v]

LoopRec(kind, f, cb, ln) ==
  [kind |-> kind, hdr |-> f.base + f.i, block |-> cb.block,
   resume |-> f.base + cb.next, depth |-> Len(stack), line |-> ln,
   start |-> Undef, end |-> Undef, step |-> Undef, exited |-> FALSE,
   envAt |-> env]

\* The place of the current line: for each enclosing loop its header's
\* position in the text and the number of the iteration, then the line's own
\* position in the text.
RECURSIVE PathOf(_, _)
PathOf(st, k) ==
  IF k = Len(st) THEN << st[k].base + st[k].i >>
  ELSE << st[k].hdr, st[k].iters >> \o PathOf(st, k + 1)

\* print(val) writing ahead of what was written before.
EmitFirst(o, v, at) == << [v |-> v, at |-> at] >> \o o

\* print(val)
Emit(o, v, at) == Append(o, [v |-> v, at |-> at])

Go(st, en, ou, lg, lp) ==
  /\ stack' = st
  /\ env' = en
  /\ out' = ou
  /\ log' = lg
  /\ loops' = lp
  /\ steps' = steps + 1
  /\ UNCHANGED <<prog, status, err>>

\* An exception: nothing catches it, the run is over.
Abort(e, lg, lp) ==
  /\ status' = "error"
  /\ err' = e
  /\ log' = lg
  /\ loops' = lp
  /\ steps' = steps + 1
  /\ UNCHANGED <<prog, stack, env, out>>

\* What an exception out of eval carries of the expression e: a SyntaxError
\* its text, a NameError the undefined name, any other exception nothing.
Cited(kind, e) ==
  CASE kind = "SyntaxError" -> e
    [] kind = "NameError" -> VarE(e.n)
    [] OTHER -> NoExpr

\* An exception out of eval, or out of an operation on values; e is the
\* expression being evaluated. Nothing wraps the exception: it cites no line.
EvalError(kind, e) ==
  [kind |-> kind, msg |-> "eval", lineno |-> 0, text |-> BlankL, abs |-> 0, expr |-> e,
   cited |-> Cited(kind, e)]

Init ==
  /\ prog \in Programs
  /\ stack = << Frame(prog, 0, 0) >>
  /\ env = EmptyEnv
  /\ out = <<>>
  /\ status = "running"
  /\ err = NoErr
  /\ log = <<>>
  /\ loops = <<>>
  /\ steps = 0

\* ------------------------------------------------------- simple statements
\* blank or comment
ExecBlank ==
  /\ AtLine /\ Cur.k = "blank"
  /\ Go(SetTop([Top EXCEPT !.i = @ + 1]), env, out, log, loops)

\* an `end` met by _exec_lines: it returns i, and the caller goes on at i + 1
ExecEnd ==
  /\ AtLine /\ RX_END(Cur)
  /\ Go(SetTop([Top EXCEPT !.i = @ + 1]), env, out,
        Append(log, Event("end", Len(stack), IntV(Top.base + Top.i))), loops)

ExecPrint ==
  /\ AtLine /\ RX_PRINT(Cur)
  /\ LET r == eval(Cur.e1, env) IN
     IF ~r.ok THEN Abort(EvalError(r.err, Cur.e1), log, loops)
     ELSE Go(SetTop([Top EXCEPT !.i = @ + 1]), env,
             Emit(out, r.val, PathOf(stack, 1)), log, loops)

ExecAssign ==
  /\ AtLine /\ RX_ASSIGN(Cur)
  /\ LET r == eval(Cur.e1, env) IN
     IF ~r.ok THEN Abort(EvalError(r.err, Cur.e1), log, loops)
     ELSE Go(SetTop([Top EXCEPT !.i = @ + 1]),
             [env EXCEPT ![Cur.var] = r.val], out, log, loops)

\* raise SyntaxError(f"Unrecognized line {i+1}: {line}")
ExecUnrecognized ==
  /\ AtLine /\ Cur.k = "bad"
  /\ Abort([kind |-> "SyntaxError", msg |-> "unrecognized", lineno |-> Top.i + 1,
            text |-> Cur, abs |-> Top.base + Top.i + 1, expr |-> NoExpr,
            cited |-> NoExpr],
           log, loops)

MissingEnd ==
  [kind |-> "SyntaxError", msg |-> "missing end", lineno |-> 0, text |-> BlankL,
   abs |-> 0, expr |-> NoExpr, cited |-> NoExpr]

\* ------------------------------------------------------------ counter loop
RECURSIVE LexLeq(_, _)
LexLeq(a, b) ==
  IF a = <<>> THEN TRUE
  ELSE IF b = <<>> THEN FALSE
  ELSE IF Head(a) # Head(b) THEN Head(a) < Head(b)
  ELSE LexLeq(Tail(a), Tail(b))

\* a <= b on Python values
LeqV(a, b) ==
  IF IsNum(a) /\ IsNum(b) THEN Ok(BoolV(a.n <= b.n))
  ELSE IF a.t = "list" /\ b.t = "list" THEN Ok(BoolV(LexLeq(a.s, b.s)))
  ELSE Fail("TypeError")

\* A zero test that never fires.
StepNeverZero(step) == FALSE

\* step == 0
StepIsZero(step) == IsNum(step) /\ step.n = 0

\* The test n <= end whatever the sign of step.
CounterContinuesUp(n, end, step) == LeqV(n, end)

\* The test with end excluded.
CounterContinuesExcl(n, end, step) ==
  IF IsNum(n) /\ IsNum(end) /\ n.n = end.n THEN Ok(BoolV(FALSE))
  ELSE IF step.n > 0 THEN LeqV(n, end) ELSE LeqV(end, n)

\* the test of the while selected by `if step > 0`: n <= end, else n >= end
CounterContinues(n, end, step) ==
  IF step.n > 0 THEN LeqV(n, end) ELSE LeqV(end, n)

\* n += step
PlusV(n, step) ==
  IF IsNum(n) /\ IsNum(step) THEN Ok(IntV(n.n + step.n)) ELSE Fail("TypeError")

\* A C-style loop that goes from the body straight back to the condition.
AfterBodyNoStep(lk) == IF lk = "counter" THEN "step" ELSE "test"

\* The phase of a loop once _run_block has returned: the counter loop and
\* the C-style loop have a step to do, the iterator loop goes to its next
\* element.
AfterBody(lk) == IF lk = "iter" THEN "test" ELSE "step"

\* A header that keeps the start, end and step of its first execution.
ExecCounterCached ==
  /\ AtLine /\ RX_FOR_COUNTER(Cur)
  /\ LET ln == Cur
         seen == { k \in 1..Len(loops) : loops[k].hdr = Top.base + Top.i }
         first == CHOOSE k \in seen : \A q \in seen : k <= q
         a == IF seen = {} THEN eval(ln.e1, env) ELSE Ok(loops[first].start)
         b == IF seen = {} THEN eval(ln.e2, env) ELSE Ok(loops[first].end)
         c == IF seen # {} THEN Ok(loops[first].step)
              ELSE IF ln.e3.op = "none" THEN Ok(IntV(1)) ELSE eval(ln.e3, env)
         cb == collect_block(Top.lines, Top.i + 1)
         id == Len(loops) + 1
         rec == [LoopRec("counter", Top, cb, ln) EXCEPT
                   !.start = a.val, !.end = b.val, !.step = c.val]
     IN IF ~a.ok THEN Abort(EvalError(a.err, ln.e1), log, loops)
        ELSE IF ~b.ok THEN Abort(EvalError(b.err, ln.e2), log, loops)
        ELSE IF ~c.ok THEN Abort(EvalError(c.err, ln.e3), log, loops)
        ELSE IF StepIsZero(c.val)
          THEN Abort([kind |-> "ValueError", msg |-> "by step cannot be 0",
                      lineno |-> 0, text |-> BlankL, abs |-> 0, expr |-> NoExpr,
                      cited |-> NoExpr],
                     log, loops)
        ELSE IF ~cb.ok THEN Abort(MissingEnd, log, loops)
        ELSE IF ~IsNum(c.val)
          THEN Abort(EvalError("TypeError", ln.e3), log, Append(loops, rec))
        ELSE Go(SetTop([Top EXCEPT !.i = cb.next, !.lk = "counter", !.ph = "test",
                                   !.var = ln.var, !.n = a.val, !.end = b.val,
                                   !.step = c.val, !.block = cb.block,
                                   !.hdr = Top.base + Top.i,
                                   !.bbase = Top.base + Top.i + 1, !.id = id]),
                env, out, log, Append(loops, rec))

\* lines 42-53: the header is evaluated, the block collected, the while chosen
ExecCounter ==
  /\ AtLine /\ RX_FOR_COUNTER(Cur)
  /\ LET ln == Cur
         a == eval(ln.e1, env)
         b == eval(ln.e2, env)
         c == IF ln.e3.op = "none" THEN Ok(IntV(1)) ELSE eval(ln.e3, env)
         cb == collect_block(Top.lines, Top.i + 1)
         id == Len(loops) + 1
         rec == [LoopRec("counter", Top, cb, ln) EXCEPT
                   !.start = a.val, !.end = b.val, !.step = c.val]
     IN IF ~a.ok THEN Abort(EvalError(a.err, ln.e1), log, loops)
        ELSE IF ~b.ok THEN Abort(EvalError(b.err, ln.e2), log, loops)
        ELSE IF ~c.ok THEN Abort(EvalError(c.err, ln.e3), log, loops)
        ELSE IF StepIsZero(c.val)
          THEN Abort([kind |-> "ValueError", msg |-> "by step cannot be 0",
                      lineno |-> 0, text |-> BlankL, abs |-> 0, expr |-> NoExpr,
                      cited |-> NoExpr],
                     log, loops)
        ELSE IF ~cb.ok THEN Abort(MissingEnd, log, loops)
        ELSE IF ~IsNum(c.val)
          THEN Abort(EvalError("TypeError", ln.e3), log, Append(loops, rec))
        ELSE Go(SetTop([Top EXCEPT !.i = cb.next, !.lk = "counter", !.ph = "test",
                                   !.var = ln.var, !.n = a.val, !.end = b.val,
                                   !.step = c.val, !.block = cb.block,
                                   !.hdr = Top.base + Top.i,
                                   !.bbase = Top.base + Top.i + 1, !.id = id]),
                env, out, log, Append(loops, rec))

\* A counter loop that binds the variable before the while test.
CounterTestBindFirst ==
  /\ Running /\ Top.lk = "counter" /\ Top.ph = "test"
  /\ LET f == Top
         t == CounterContinues(f.n, f.end, f.step)
         en == [env EXCEPT ![f.var] = f.n]
     IN IF ~t.ok THEN Abort(EvalError(t.err, NoExpr), log, loops)
        ELSE IF Truthy(t.val)
          THEN Go(Push([f EXCEPT !.ph = "body", !.iters = @ + 1],
                       Frame(f.block, 0, f.bbase)),
                  en, out, Append(log, Event("body", f.id, en[f.var])), loops)
        ELSE Go(SetTop(Leave(f)), en, out, Append(log, Event("exit", f.id, IntV(f.base + f.i))),
                [loops EXCEPT ![f.id].exited = TRUE])

\* lines 55-57 / 61-63: the while test, then the binding and the call of _run_block
CounterTest ==
  /\ Running /\ Top.lk = "counter" /\ Top.ph = "test"
  /\ LET f == Top
         t == CounterContinues(f.n, f.end, f.step)
     IN IF ~t.ok THEN Abort(EvalError(t.err, NoExpr), log, loops)
        ELSE IF Truthy(t.val)
          THEN LET en == [env EXCEPT ![f.var] = f.n] IN
               Go(Push([f EXCEPT !.ph = "body", !.iters = @ + 1],
                       Frame(f.block, 0, f.bbase)),
                  en, out, Append(log, Event("body", f.id, en[f.var])), loops)
        ELSE Go(SetTop(Leave(f)), env, out, Append(log, Event("exit", f.id, IntV(f.base + f.i))),
                [loops EXCEPT ![f.id].exited = TRUE])

\* A counter that is read back from the Environment before it is advanced.
CounterAdvanceEnv ==
  /\ Running /\ Top.lk = "counter" /\ Top.ph = "step"
  /\ LET r == PlusV(env[Top.var], Top.step) IN
     IF ~r.ok THEN Abort(EvalError(r.err, NoExpr), log, loops)
     ELSE Go(SetTop([Top EXCEPT !.n = r.val, !.ph = "test"]), env, out, log, loops)

\* lines 58 / 64: n += step
CounterAdvance ==
  /\ Running /\ Top.lk = "counter" /\ Top.ph = "step"
  /\ LET r == PlusV(Top.n, Top.step) IN
     IF ~r.ok THEN Abort(EvalError(r.err, NoExpr), log, loops)
     ELSE Go(SetTop([Top EXCEPT !.n = r.val, !.ph = "test"]), env, out, log, loops)

\* ----------------------------------------------------------- iterator loop
\* lines 68-72
ExecIter ==
  /\ AtLine /\ RX_FOR_ITER(Cur)
  /\ LET ln == Cur
         a == eval(ln.e1, env)
         cb == collect_block(Top.lines, Top.i + 1)
         id == Len(loops) + 1
         rec == [LoopRec("iter", Top, cb, ln) EXCEPT !.start = a.val]
     IN IF ~a.ok THEN Abort(EvalError(a.err, ln.e1), log, loops)
        ELSE IF ~cb.ok THEN Abort(MissingEnd, log, loops)
        ELSE Go(SetTop([Top EXCEPT !.i = cb.next, !.lk = "iter", !.ph = "test",
                                   !.var = ln.var, !.itv = a.val, !.idx = 0,
                                   !.block = cb.block, !.hdr = Top.base + Top.i,
                                   !.bbase = Top.base + Top.i + 1, !.id = id]),
                env, out, log, Append(loops, rec))

\* The elements taken from the far end.
IterElemRev(q, idx) == q[Len(q) - idx]

\* the element `for v in it` takes at its idx-th step (idx from 0)
IterElem(q, idx) == q[idx + 1]

\* lines 73-75: the next element, the binding and the call of _run_block
IterNext ==
  /\ Running /\ Top.lk = "iter" /\ Top.ph = "test"
  /\ LET f == Top IN
     IF f.itv.t # "list" THEN Abort(EvalError("TypeError", NoExpr), log, loops)
     ELSE IF f.idx < Len(f.itv.s)
       THEN LET en == [env EXCEPT ![f.var] = IntV(IterElem(f.itv.s, f.idx))] IN
            Go(Push([f EXCEPT !.ph = "body", !.idx = @ + 1, !.iters = @ + 1],
                    Frame(f.block, 0, f.bbase)),
               en, out, Append(log, Event("body", f.id, en[f.var])), loops)
     ELSE Go(SetTop(Leave(f)), env, out, Append(log, Event("exit", f.id, IntV(f.base + f.i))),
             [loops EXCEPT ![f.id].exited = TRUE])

\* ------------------------------------------------------------ C-style loop
\* A C-style header that runs its init clause before it looks for the
\* terminator.
ExecCStyleInitFirst ==
  /\ AtLine /\ RX_FOR_CSTYLE(Cur)
  /\ LET ln == Cur
         init == do_assign(ln.c1)
         step == do_assign(ln.c3)
         cb == collect_block(Top.lines, Top.i + 1)
         id == Len(loops) + 1
         rec == LoopRec("cstyle", Top, cb, ln)
         r == eval(init.e, env)
         en == IF init.form = "assign" THEN [env EXCEPT ![init.name] = r.val] ELSE env
         f == [Top EXCEPT !.i = cb.next, !.lk = "cstyle", !.ph = "test",
                          !.init = init, !.cond = ln.e2, !.stp = step,
                          !.block = cb.block, !.hdr = Top.base + Top.i,
                          !.bbase = Top.base + Top.i + 1, !.id = id]
     IN IF init.form # "empty" /\ ~r.ok
          THEN Abort(EvalError(r.err, init.e), Append(log, Event("init", id, Undef)),
                     Append(loops, rec))
        ELSE IF ~cb.ok
          THEN /\ status' = "error" /\ err' = MissingEnd /\ steps' = steps + 1
               /\ env' = IF init.form = "empty" THEN env ELSE en
               /\ UNCHANGED <<prog, stack, out, log, loops>>
        ELSE IF init.form = "empty"
          THEN Go(SetTop(f), env, out, log, Append(loops, rec))
        ELSE Go(SetTop(f), en, out, Append(log, Event("init", id, r.val)),
                Append(loops, rec))

\* lines 79-106: the clauses are parsed, the block collected, init run once
ExecCStyle ==
  /\ AtLine /\ RX_FOR_CSTYLE(Cur)
  /\ LET ln == Cur
         init == do_assign(ln.c1)
         step == do_assign(ln.c3)
         cb == collect_block(Top.lines, Top.i + 1)
         id == Len(loops) + 1
         rec == LoopRec("cstyle", Top, cb, ln)
         r == eval(init.e, env)
         f == [Top EXCEPT !.i = cb.next, !.lk = "cstyle", !.ph = "test",
                          !.init = init, !.cond = ln.e2, !.stp = step,
                          !.block = cb.block, !.hdr = Top.base + Top.i,
                          !.bbase = Top.base + Top.i + 1, !.id = id]
     IN IF ~cb.ok THEN Abort(MissingEnd, log, loops)
        ELSE IF init.form = "empty"
          THEN Go(SetTop(f), env, out, log, Append(loops, rec))
        ELSE IF ~r.ok
          THEN Abort(EvalError(r.err, init.e), Append(log, Event("init", id, Undef)),
                     Append(loops, rec))
        ELSE Go(SetTop(f),
                IF init.form = "assign" THEN [env EXCEPT ![init.name] = r.val]
                ELSE env,
                out, Append(log, Event("init", id, r.val)), Append(loops, rec))

\* An empty condition taken for false.
CondOkEmptyFalse(cond, en) ==
  IF cond.op = "none" THEN Ok(BoolV(FALSE)) ELSE eval(cond, en)

\* line 110: ok = True if cond == "" else bool(self._eval(cond))
CondOk(cond, en) ==
  IF cond.op = "none" THEN Ok(BoolV(TRUE)) ELSE eval(cond, en)

\* lines 110-113: the condition, then the call of _run_block
CStyleCond ==
  /\ Running /\ Top.lk = "cstyle" /\ Top.ph = "test"
  /\ LET f == Top
         r == CondOk(f.cond, env)
     IN IF ~r.ok
          THEN Abort(EvalError(r.err, f.cond), Append(log, Event("cond", f.id, Undef)),
                     loops)
        ELSE IF Truthy(r.val)
          THEN Go(Push([f EXCEPT !.ph = "body", !.iters = @ + 1],
                       Frame(f.block, 0, f.bbase)),
                  env, out,
                  log \o << Event("condT", f.id, r.val), Event("body", f.id, Undef) >>,
                  loops)
        ELSE Go(SetTop(Leave(f)), env, out,
                log \o << Event("condF", f.id, r.val), Event("exit", f.id, IntV(f.base + f.i)) >>,
                [loops EXCEPT ![f.id].exited = TRUE])

\* lines 114-119: the step clause
CStyleStep ==
  /\ Running /\ Top.lk = "cstyle" /\ Top.ph = "step"
  /\ LET f == Top
         r == eval(f.stp.e, env)
         g == [f EXCEPT !.ph = "test"]
     IN IF f.stp.form = "empty" THEN Go(SetTop(g), env, out, log, loops)
        ELSE IF ~r.ok
          THEN Abort(EvalError(r.err, f.stp.e), Append(log, Event("step", f.id, Undef)),
                     loops)
        ELSE Go(SetTop(g),
                IF f.stp.form = "assign" THEN [env EXCEPT ![f.stp.name] = r.val]
                ELSE env,
                out, Append(log, Event("step", f.id, r.val)), loops)

\* ----------------------------------------------------------------- returns
\* _exec_lines reaches the end of a block (line 144) and _run_block returns
\* to the loop that called it.
BlockReturn ==
  /\ Running /\ Len(stack) > 1
  /\ Top.lk = "none" /\ Top.i >= Len(Top.lines)
  /\ LET below == SubSeq(stack, 1, Len(stack) - 1)
         f == below[Len(below)]
     IN Go([below EXCEPT ![Len(below)] = [f EXCEPT !.ph = AfterBody(f.lk)]],
           env, out, Append(log, Event("bodyEnd", f.id, Undef)), loops)

\* run reaches the end of the text
RunFinish ==
  /\ Running /\ Len(stack) = 1
  /\ Top.lk = "none" /\ Top.i >= Len(Top.lines)
  /\ status' = "done"
  /\ steps' = steps + 1
  /\ UNCHANGED <<prog, stack, env, out, err, log, loops>>

Next ==
  \/ ExecBlank
  \/ ExecCounter
  \/ CounterTest
  \/ CounterAdvance
  \/ ExecIter
  \/ IterNext
  \/ ExecCStyle
  \/ CStyleCond
  \/ CStyleStep
  \/ ExecEnd
  \/ ExecPrint
  \/ ExecAssign
  \/ ExecUnrecognized
  \/ BlockReturn
  \/ RunFinish

Spec == Init /\ [][Next]_vars

\* ============================================================ properties
\* Positions in the text are 0-based: line p of the text is prog[p + 1].
Headers(lo, hi) == { q \in lo..hi : IsHeader(prog[q + 1]) }
Ends(lo, hi) == { q \in lo..hi : RX_END(prog[q + 1]) }

\* The depth after line p, counted from 1 just after the header at line h.
DepthAt(h, p) ==
  1 + Cardinality(Headers(h + 1, p)) - Cardinality(Ends(h + 1, p))

Closers(h) ==
  { p \in (h + 1)..(Len(prog) - 1) : RX_END(prog[p + 1]) /\ DepthAt(h, p) = 0 }

\* The first terminator after the header at h where the depth reaches 0; -1 if none.
FirstClose(h) ==
  IF Closers(h) = {} THEN -1
  ELSE CHOOSE p \in Closers(h) : \A q \in Closers(h) : p <= q

\* The events of header execution id among the kinds es, in order.
EventsOf(id, es) == SelectSeq(log, LAMBDA ev : ev.id = id /\ ev.e \in es)

Bodies(id) == EventsOf(id, {"body"})

HdrResume == [k \in 1..Len(loops) |-> << loops[k].hdr, loops[k].resume >>]

OutVals == [k \in 1..Len(out) |-> out[k].v.n]

\* C1: every executed header, at any depth, gets as its body exactly the
\* lines between it and the first later terminator where the depth counter
\* reaches 0, the terminator excluded, and execution resumes right after that
\* terminator; in the program of two sequential loops with one nested loop
\* each, every terminator closes its own header.
C1_BlockMatching ==
  /\ \A k \in 1..Len(loops) :
       LET r == loops[k]
           m == FirstClose(r.hdr)
       IN /\ prog[r.hdr + 1] = r.line
          /\ m # -1
          /\ r.block = SubSeq(prog, r.hdr + 2, m)
          /\ r.resume = m + 1
  /\ \A k \in 1..Len(stack) :
       LET f == stack[k] IN
       /\ f.lines = SubSeq(prog, f.base + 1, f.base + Len(f.lines))
       /\ f.lk # "none" =>
            /\ f.block = loops[f.id].block
            /\ f.hdr = loops[f.id].hdr
            /\ f.base + f.i = FirstClose(f.hdr) + 1
            /\ k < Len(stack) =>
                 /\ stack[k + 1].lines = f.block
                 /\ stack[k + 1].base = f.hdr + 1
  /\ \A p \in 1..Len(log) :
       log[p].e = "exit" =>
         log[p].v.n = FirstClose(loops[log[p].id].hdr) + 1
  /\ (prog = NestTwice /\ status = "done") =>
       HdrResume = << <<0, 6>>, <<1, 4>>, <<1, 4>>, <<6, 12>>, <<7, 10>>, <<7, 10>> >>

C1_Witness ==
  /\ prog = NestTwice /\ status = "done" /\ Len(loops) = 6
  /\ \A k \in 1..6 : loops[k].exited

CondKinds == {"condT", "condF", "cond"}

Names(q) == [p \in 1..Len(q) |-> q[p].e]

\* The protocol events of a C-style loop: init, condition checks (true,
\* false, or failed), body start, body end, step.
Protocol(id) ==
  EventsOf(id, {"init", "body", "bodyEnd", "step"} \cup CondKinds)

\* C2: in every executed C-style loop init (if present) is the first event
\* and happens once; every body start directly follows a condition check that
\* was true; after every body the step clause (if present) runs, and then the
\* next condition check; nothing follows a check that was false, and the
\* loop has exited exactly when its last event is such a check.
C2_CStyleProtocol ==
  \A k \in 1..Len(loops) :
    loops[k].kind = "cstyle" =>
      LET P == Protocol(k)
          hasInit == loops[k].line.c1.form # "empty"
          hasStep == loops[k].line.c3.form # "empty"
      IN /\ hasInit => P # <<>>
         /\ P # <<>> => /\ (P[1].e = "init") <=> hasInit
                        /\ P[1].e \in {"init"} \cup CondKinds
         /\ \A p \in 2..Len(P) :
              /\ P[p].e # "init"
              /\ P[p - 1].e \notin {"condF", "cond"}
              /\ P[p - 1].e = "condT" <=> P[p].e = "body"
              /\ P[p - 1].e = "body" => P[p].e = "bodyEnd"
              /\ P[p].e = "step" <=> (hasStep /\ P[p - 1].e = "bodyEnd")
              /\ P[p].e \in CondKinds =>
                   \/ P[p - 1].e = "init"
                   \/ P[p - 1].e = "step"
                   \/ ~hasStep /\ P[p - 1].e = "bodyEnd"
         /\ loops[k].exited <=> (P # <<>> /\ P[Len(P)].e = "condF")

C2_Witness ==
  \E k \in 1..Len(loops) :
    /\ loops[k].kind = "cstyle" /\ loops[k].exited
    /\ Names(Protocol(k)) = << "init", "condT", "body", "bodyEnd", "step",
                               "condT", "body", "bodyEnd", "step", "condF" >>

\* The number of values start, start+step, ... that do not pass end.
TripCount(a, b, c) ==
  IF c > 0 THEN (IF a > b THEN 0 ELSE ((b - a) \div c) + 1)
  ELSE (IF a < b THEN 0 ELSE ((a - b) \div (0 - c)) + 1)

IntHeader(r) ==
  r.kind = "counter" /\ r.start.t = "int" /\ r.end.t = "int" /\ r.step.t = "int"

\* C3: for every executed counter header with integer start, end and step
\* (step not 0), the k-th body starts with the variable bound to
\* start + (k-1)*step, a value that does not pass end; a loop that has exited
\* ran once for each such value; the step of a header without `by` is 1.
C3_CounterSequence ==
  \A k \in 1..Len(loops) :
    LET r == loops[k]
        B == Bodies(k)
    IN IntHeader(r) =>
         /\ r.line.e3.op = "none" => r.step.n = 1
         /\ r.line.e3.op = "lit" => r.step.n = r.line.e3.k
         /\ r.line.e1.op = "lit" => r.start.n = r.line.e1.k
         /\ r.line.e2.op = "lit" => r.end.n = r.line.e2.k
         /\ r.step.n # 0
         /\ \A p \in 1..Len(B) :
              /\ B[p].v = IntV(r.start.n + (p - 1) * r.step.n)
              /\ r.step.n > 0 => B[p].v.n <= r.end.n
              /\ r.step.n < 0 => B[p].v.n >= r.end.n
         /\ r.exited => Len(B) = TripCount(r.start.n, r.end.n, r.step.n)

C3_Witness ==
  \E k \in 1..Len(loops) :
    /\ IntHeader(loops[k]) /\ loops[k].exited
    /\ loops[k].line = Counter("i", Lit(1), Lit(5), Lit(2))
    /\ [p \in 1..Len(Bodies(k)) |-> Bodies(k)[p].v.n] = <<1, 3, 5>>

RECURSIVE LexLess(_, _)
LexLess(a, b) ==
  IF b = <<>> THEN FALSE
  ELSE IF a = <<>> THEN TRUE
  ELSE IF Head(a) # Head(b) THEN Head(a) < Head(b)
  ELSE LexLess(Tail(a), Tail(b))

\* C4: when a program has run without error, its outputs are in program
\* order expanded by iteration: the place of each output (enclosing headers
\* with their iteration numbers, then the line) is before the place of the
\* next one; for the program of two loops with a nested loop each, the whole
\* output of one outer iteration precedes the next one's.
C4_OutputOrder ==
  status = "done" =>
    /\ \A p \in 1..(Len(out) - 1) : LexLess(out[p].at, out[p + 1].at)
    /\ \A p \in 1..Len(out) :
         LET at == out[p].at IN RX_PRINT(prog[at[Len(at)] + 1])
    /\ prog = NestTwice => OutVals = <<1, 2, 1, 1, 2, 2, 0, 1, 7, 0, 1, 8>>
    /\ prog = Demo => OutVals = <<1, 3, 5, 5, 7, 6, 0, 1, 2, 2, 1>>

C4_Witness ==
  /\ prog = NestTwice /\ status = "done" /\ Len(out) = 12
  /\ out[3].at = <<0, 1, 4>> /\ out[4].at = <<0, 2, 1, 1, 2>>

\* C5: a terminator met by the statement executor at top level, with no
\* header open, makes the run fail.
C5_StrayEndFails ==
  (log # <<>> /\ log[Len(log)].e = "end" /\ log[Len(log)].id = 1) =>
    status = "error"

\* C6: the error for an unrecognized line cites the line's 1-based position
\* in the program text and its text, at top level and inside loop bodies.
C6_CitesTextPosition ==
  (status = "error" /\ err.msg = "unrecognized") =>
    /\ err.lineno = err.abs
    /\ err.lineno \in 1..Len(prog)
    /\ err.text = prog[err.lineno]

\* The run has failed while executing the header line the innermost
\* _exec_lines call is at.
AtFailedHeader ==
  /\ status = "error" /\ Top.lk = "none"
  /\ Top.i < Len(Top.lines) /\ IsHeader(Cur)

FailedAt == Top.base + Top.i

\* What a header evaluates before its block is collected raises nothing.
HeaderEvalOk(ln) ==
  CASE ln.k = "counter" ->
         /\ eval(ln.e1, env).ok /\ eval(ln.e2, env).ok
         /\ ln.e3.op # "none" =>
              /\ eval(ln.e3, env).ok
              /\ ~(eval(ln.e3, env).val.t \in {"int", "bool"}
                   /\ eval(ln.e3, env).val.n = 0)
    [] ln.k = "iter" -> eval(ln.e1, env).ok
    [] OTHER -> TRUE

OutputsBefore(h) ==
  \A p \in 1..Len(out) : LET at == out[p].at IN at[Len(at)] < h

\* C7 as claimed: a header without a matching terminator never starts a
\* loop; its execution fails with the missing-terminator error, and no
\* statement after it in the text has produced output.
C7_MissingEndAlways ==
  /\ \A k \in 1..Len(loops) : FirstClose(loops[k].hdr) # -1
  /\ (AtFailedHeader /\ FirstClose(FailedAt) = -1) =>
       /\ err = MissingEnd
       /\ OutputsBefore(FailedAt)

\* C7 amended: a header without a matching terminator never starts a loop
\* and no statement after it in the text produces output; its execution
\* fails with the missing-terminator error when the expressions the header
\* evaluates before collecting its block raise nothing and a counter step is
\* not 0, and with the error of that evaluation or the step-zero error
\* otherwise.
C7_MissingEnd ==
  /\ \A k \in 1..Len(loops) : FirstClose(loops[k].hdr) # -1
  /\ (AtFailedHeader /\ FirstClose(FailedAt) = -1) =>
       /\ HeaderEvalOk(Cur) => err = MissingEnd
       /\ ~HeaderEvalOk(Cur) =>
            /\ err.kind \in {"ValueError", "NameError", "TypeError", "SyntaxError"}
            /\ err.msg \in {"by step cannot be 0", "eval"}
            /\ RX_FOR_COUNTER(Cur) \/ RX_FOR_ITER(Cur)
       /\ OutputsBefore(FailedAt)

C7_Witness ==
  /\ prog = NoEnd /\ status = "error" /\ err = MissingEnd
  /\ AtFailedHeader /\ FailedAt = 3 /\ OutVals = <<1>>

\* A counter header is about to be executed and its step evaluates to 0.
ZeroStepHeader ==
  /\ AtLine /\ RX_FOR_COUNTER(Cur)
  /\ eval(Cur.e1, env).ok /\ eval(Cur.e2, env).ok
  /\ Cur.e3.op # "none" /\ eval(Cur.e3, env).ok
  /\ eval(Cur.e3, env).val.t \in {"int", "bool"}
  /\ eval(Cur.e3, env).val.n = 0

\* C8: executing a counter header whose step evaluates to 0 raises the
\* step-zero error, whatever start and end are, without binding the variable,
\* starting the body or producing output.
C8_ZeroStep ==
  [][ ZeroStepHeader =>
        /\ status' = "error"
        /\ err'.kind = "ValueError" /\ err'.msg = "by step cannot be 0"
        /\ env' = env /\ out' = out /\ stack' = stack
        /\ log' = log /\ loops' = loops ]_vars

C8_Witness ==
  /\ status = "error" /\ err.msg = "by step cannot be 0"
  /\ Cur = Counter("i", Lit(5), Lit(1), Lit(0))
  /\ env = EmptyEnv /\ out = <<>> /\ loops = <<>>

BodyVals(k) == [p \in 1..Len(Bodies(k)) |-> Bodies(k)[p].v.n]

\* C9: for every executed iterator header over a list, the k-th body starts
\* with the variable bound to the k-th element; a loop that has exited ran
\* once per element; over the empty list the body never starts, no error is
\* raised by the loop and the run goes on after the terminator.
C9_IteratorLoop ==
  \A k \in 1..Len(loops) :
    LET r == loops[k]
        B == Bodies(k)
        X == EventsOf(k, {"exit"})
    IN (r.kind = "iter" /\ r.start.t = "list") =>
         /\ r.line.e1.op = "list" => r.start.s = r.line.e1.s
         /\ Len(B) <= Len(r.start.s)
         /\ \A p \in 1..Len(B) : B[p].v = IntV(r.start.s[p])
         /\ r.exited => Len(B) = Len(r.start.s)
         /\ r.exited <=> Len(X) = 1
         /\ r.start.s = <<>> =>
              /\ status = "error" => r.exited
              /\ \A p \in 1..Len(X) : X[p].v.n = FirstClose(r.hdr) + 1

C9_Witness ==
  /\ prog = ZeroTrips /\ status = "done"
  /\ \E k \in 1..Len(loops) :
       /\ loops[k].kind = "iter" /\ loops[k].start.s = <<>>
       /\ loops[k].exited /\ Bodies(k) = <<>>
  /\ \E k \in 1..Len(loops) :
       /\ loops[k].kind = "iter" /\ loops[k].exited
       /\ BodyVals(k) = <<4, 6, 5>>

ZeroTrip(r) ==
  /\ IntHeader(r)
  /\ \/ r.start.n > r.end.n /\ r.step.n > 0
     \/ r.start.n < r.end.n /\ r.step.n < 0

\* C10: a counter loop with start > end and step > 0, or start < end and
\* step < 0, never starts its body, raises no error, and the run goes on at
\* the line after the matching terminator.
C10_ZeroTrip ==
  \A k \in 1..Len(loops) :
    LET r == loops[k]
        X == EventsOf(k, {"exit"})
    IN ZeroTrip(r) =>
         /\ Bodies(k) = <<>>
         /\ status = "error" => r.exited
         /\ r.exited <=> Len(X) = 1
         /\ \A p \in 1..Len(X) : X[p].v.n = FirstClose(r.hdr) + 1
         /\ \A p \in 1..Len(stack) :
              (stack[p].lk = "counter" /\ stack[p].id = k) =>
                 p = Len(stack) /\ stack[p].ph = "test"

C10_Witness ==
  /\ prog = ZeroTrips /\ status = "done"
  /\ ZeroTrip(loops[1]) /\ loops[1].step.n > 0 /\ loops[1].exited
  /\ ZeroTrip(loops[2]) /\ loops[2].step.n < 0 /\ loops[2].exited
  /\ Bodies(1) = <<>> /\ Bodies(2) = <<>>
  /\ OutVals = <<2, 4, 6, 3, 1, 4, 6, 5>>

\* C11: once an error of any kind has been raised, at any nesting depth, the
\* run is over: no statement executes, nothing more is printed, no binding is
\* made and no enclosing loop goes on to another iteration; the step that
\* raises the error itself prints nothing and binds nothing.
C11_FailFast ==
  [][ /\ status = "error" =>
           /\ status' = "error" /\ err' = err
           /\ out' = out /\ env' = env /\ stack' = stack
           /\ log' = log /\ loops' = loops /\ steps' = steps
      /\ status' = "error" =>
           /\ out' = out /\ env' = env /\ stack' = stack
           /\ \A k \in 1..Len(loops) : Len(Bodies(k))' = Len(Bodies(k)) ]_vars

\* The unrecognized line two loops deep has been reached in the first
\* iteration of the outer loop, which had another iteration to make.
C11_Witness ==
  /\ prog = DeepBad /\ status = "error" /\ err.msg = "unrecognized"
  /\ Len(stack) = 3
  /\ stack[1].lk = "counter" /\ stack[1].ph = "body" /\ stack[1].iters = 1
  /\ Truthy(CounterContinues(PlusV(stack[1].n, stack[1].step).val,
                             stack[1].end, stack[1].step).val)
  /\ stack[2].lk = "iter" /\ stack[2].ph = "body"
  /\ OutVals = <<9, 5>>
  /\ env["i"] = IntV(1)

\* The lines of a block that match none of the patterns.
BadIn(block) == { q \in 1..Len(block) : block[q].k = "bad" }

\* C12: an unrecognized line in the body of a loop that iterates zero times
\* is never reported: the loop exits to the line after its terminator, and a
\* program whose unrecognized lines are all in such bodies raises no error.
\* An unrecognized-line error is raised only with execution at that line,
\* every enclosing loop being in an iteration of its body.
C12_LazyDetection ==
  /\ prog \in LazySkips => status # "error"
  /\ (prog = LazyThenBad /\ status # "running") =>
       /\ err.msg = "unrecognized" /\ err.abs = 7 /\ err.lineno = 7
       /\ OutVals = <<1>>
  /\ \A k \in 1..Len(loops) :
       (loops[k].exited /\ Bodies(k) = <<>>) =>
          /\ \A p \in 1..Len(stack) : stack[p].id = k => stack[p].ph = "test"
          /\ EventsOf(k, {"exit"}) =
               << Event("exit", k, IntV(FirstClose(loops[k].hdr) + 1)) >>
  /\ (status = "error" /\ err.msg = "unrecognized") =>
       /\ Top.lk = "none" /\ Top.i < Len(Top.lines)
       /\ Cur.k = "bad" /\ err.text = Cur
       /\ prog[Top.base + Top.i + 1] = Cur
       /\ \A p \in 1..(Len(stack) - 1) :
            /\ stack[p].ph = "body" /\ stack[p].iters >= 1
            /\ Len(Bodies(stack[p].id)) = stack[p].iters
            /\ stack[p].hdr < Top.base + Top.i
            /\ Top.base + Top.i < FirstClose(stack[p].hdr)

\* The inner loop was executed twice, never ran its body with the
\* unrecognized line, and the run finished.
C12_Witness ==
  /\ prog = LazyNested /\ status = "done"
  /\ Len(loops) = 3
  /\ \A k \in {2, 3} :
       /\ BadIn(loops[k].block) # {}
       /\ loops[k].exited /\ Bodies(k) = <<>>
  /\ OutVals = <<1, 2>>

\* The lines of a block that bind the name v: an assignment, a Counter or
\* Iterator header of that variable, a C-style clause that assigns it.
Assigns(block, v) ==
  \E q \in 1..Len(block) :
    LET ln == block[q] IN
      \/ (RX_ASSIGN(ln) \/ RX_FOR_COUNTER(ln) \/ RX_FOR_ITER(ln)) /\ ln.var = v
      \/ /\ RX_FOR_CSTYLE(ln)
         /\ \E c \in {do_assign(ln.c1), do_assign(ln.c3)} :
              c.form = "assign" /\ c.name = v

\* The step takes a Counter or Iterator loop that ran its body at least once
\* to its normal exit.
LoopExits ==
  /\ status = "running" /\ status' = "running"
  /\ Top.lk \in {"counter", "iter"} /\ Top.ph = "test" /\ Top.iters >= 1
  /\ Len(stack') = Len(stack) /\ stack'[Len(stack)].lk = "none"

\* The value of the final iteration of the loop of frame f.
FinalValue(f) ==
  IF f.lk = "counter"
    THEN IntV(loops[f.id].start.n + (f.iters - 1) * f.step.n)
    ELSE IntV(f.itv.s[Len(f.itv.s)])

\* C13: when a Counter or Iterator loop that ran at least one iteration and
\* whose body does not assign the loop variable exits normally, the
\* Environment binds the loop variable to the value of the final iteration
\* (for a Counter loop the last value within the end bound, not the value
\* that failed the test); and no step removes a binding.
C13_LoopVarPersists ==
  [][ /\ (LoopExits /\ ~Assigns(Top.block, Top.var)) =>
           /\ env'[Top.var] = FinalValue(Top)
           /\ Top.lk = "counter" =>
                /\ Truthy(CounterContinues(env'[Top.var], Top.end, Top.step).val)
                /\ env'[Top.var] # Top.n
                /\ ~Truthy(CounterContinues(Top.n, Top.end, Top.step).val)
      /\ \A v \in Vars : env[v] # Undef => env'[v] # Undef ]_vars

\* After `for i = 1 to 5 by 2` and `for w in [4, 6, 5]` the variables hold 5
\* and 5, the values of the final iterations.
C13_Witness ==
  /\ prog = Demo /\ status = "done"
  /\ loops[1].exited /\ Len(Bodies(1)) = 3 /\ env["i"] = IntV(5)
  /\ loops[2].exited /\ Len(Bodies(2)) = 3 /\ env["w"] = IntV(5)
  /\ ~Assigns(loops[1].block, "i") /\ ~Assigns(loops[2].block, "w")

\* The values a header's expressions have in the Environment en.
HeaderValues(r, en) ==
  CASE r.kind = "counter" ->
         << eval(r.line.e1, en).val, eval(r.line.e2, en).val,
            IF r.line.e3.op = "none" THEN IntV(1) ELSE eval(r.line.e3, en).val >>
    [] r.kind = "iter" -> << eval(r.line.e1, en).val, Undef, Undef >>
    [] OTHER -> << Undef, Undef, Undef >>

\* C14: a header nested in a body is evaluated again on every iteration of
\* the enclosing loop, against the Environment as it is then: its expressions
\* see the enclosing loop variable's current binding and the assignments made
\* so far. `for j = 1 to i do` inside `for i = 1 to 3 do` runs its body i
\* times on outer iteration i; `for j = x to 2 do` after `x = x + 1` starts
\* at the new x.
C14_ReEntrant ==
  /\ \A k \in 1..Len(loops) :
       LET r == loops[k]
           I == EventsOf(k, {"init"})
       IN /\ << r.start, r.end, r.step >> = HeaderValues(r, r.envAt)
          /\ \A p \in 1..Len(I) :
               I[p].v \in {Undef, eval(do_assign(r.line.c1).e, r.envAt).val}
  /\ prog = Triangle =>
       \A k \in 2..Len(loops) :
         /\ loops[k].hdr = 1 /\ loops[k].depth = 2
         /\ loops[k].envAt["i"] = IntV(k - 1)
         /\ loops[k].end = IntV(k - 1)
         /\ Len(Bodies(1)) >= k - 1
         /\ loops[k].exited => BodyVals(k) = [p \in 1..(k - 1) |-> p]
  /\ prog = Accum =>
       \A k \in 2..Len(loops) :
         /\ loops[k].hdr = 3
         /\ loops[k].envAt["x"] = IntV(k - 1) /\ loops[k].envAt["w"] = IntV(k + 3)
         /\ loops[k].start = IntV(k - 1)
         /\ loops[k].exited => BodyVals(k) = [p \in 1..(4 - k) |-> k - 2 + p]

\* The inner header has been executed three times, with end 1, 2 and 3.
C14_Witness ==
  /\ prog = Triangle /\ status = "done"
  /\ Len(loops) = 4
  /\ BodyVals(2) = <<1>> /\ BodyVals(3) = <<1, 2>> /\ BodyVals(4) = <<1, 2, 3>>
  /\ OutVals = <<1, 1, 2, 1, 2, 3>>

\* The executions of C-style headers whose condition clause is empty.
EmptyCond == { k \in 1..Len(loops) :
                 loops[k].kind = "cstyle" /\ loops[k].line.e2 = NoExpr }

\* C15: a C-style loop whose condition clause is empty takes every check for
\* true: it never exits, the run never finishes, and no statement at or after
\* the line following its terminator is executed; while no error is raised
\* its frame stays in the loop. A C-style loop exits only on a condition
\* check that yields false.
C15_AlwaysTrue ==
  /\ \A k \in EmptyCond :
       LET r == loops[k] IN
         /\ ~r.exited /\ status # "done"
         /\ EventsOf(k, {"condF", "cond", "exit"}) = <<>>
         /\ \A p \in 1..Len(out) : out[p].at[Len(out[p].at)] < r.resume
         /\ status = "running" =>
              /\ Len(stack) >= r.depth
              /\ stack[r.depth].lk = "cstyle" /\ stack[r.depth].id = k
              /\ stack[r.depth].base + stack[r.depth].i = r.resume
              /\ Len(EventsOf(k, {"condT"})) = stack[r.depth].iters
  /\ \A p \in 1..Len(log) :
       (log[p].e = "exit" /\ loops[log[p].id].kind = "cstyle") =>
          /\ p > 1 /\ log[p - 1].e = "condF" /\ log[p - 1].id = log[p].id
          /\ ~Truthy(log[p - 1].v)
          /\ loops[log[p].id].line.e2 # NoExpr

\* The loop with the empty condition has made ten iterations and goes on;
\* the print after its terminator has written nothing.
C15_Witness ==
  /\ prog = Forever /\ status = "running"
  /\ EmptyCond = {1}
  /\ Len(Bodies(1)) = 10 /\ ~loops[1].exited
  /\ OutVals = <<0, 1, 2, 3, 4, 5, 6, 7, 8>>

\* C16: when the evaluation of an expression of a statement or header clause
\* fails, the error raised identifies the originating statement: it carries
\* the text of the expression that was being evaluated.
C16_CitesExpression ==
  (status = "error" /\ err.msg = "eval" /\ err.expr # NoExpr) =>
     err.cited = err.expr

\* Headers minus terminators among the first n lines of a block.
Surplus(block, n) ==
  Cardinality({ q \in 1..n : IsHeader(block[q]) })
    - Cardinality({ q \in 1..n : RX_END(block[q]) })

Balanced(block) ==
  /\ \A n \in 0..Len(block) : Surplus(block, n) >= 0
  /\ Surplus(block, Len(block)) = 0

\* The terminators met by the statement executor, in order.
EndsMet == SelectSeq(log, LAMBDA ev : ev.e = "end")

\* C17: every body returned by the block matcher is terminator-balanced, so
\* the statement executor never is at a terminator line while it executes a
\* loop body, at any depth; the terminator branch is reached only at the top
\* level, at a terminator of the program text that closes no header.
C17_EndUnreachableInBody ==
  /\ \A k \in 1..Len(loops) : Balanced(loops[k].block)
  /\ \A p \in 1..Len(stack) :
       /\ Balanced(stack[p].block)
       /\ p > 1 => Balanced(stack[p].lines)
  /\ (Len(stack) > 1 /\ Top.lk = "none" /\ Top.i < Len(Top.lines)) => ~RX_END(Cur)
  /\ \A p \in 1..Len(EndsMet) :
       LET at == EndsMet[p].v.n IN
         /\ EndsMet[p].id = 1
         /\ RX_END(prog[at + 1])
         /\ \A h \in Headers(0, at) : FirstClose(h) # at

\* Both loops of the nest have run their bodies to the end, and the
\* terminator that closes nothing was met at the top level.
C17_Witness ==
  /\ prog = NestedStray /\ status = "done"
  /\ Len(loops) = 3 /\ \A k \in 1..3 : loops[k].exited
  /\ Len(EventsOf(1, {"bodyEnd"})) = 2
  /\ EndsMet = << Event("end", 1, IntV(5)) >>
  /\ OutVals = <<1, 1, 7>>

\* C18: start, end and step of a counter loop are the values its header had
\* when it was executed, and the running counter is the executor's own:
\* whatever the body assigns, the loop holds the same end and step, its
\* counter is start plus step times the iterations made, the k-th iteration
\* starts with start + (k-1)*step, and the loop makes the number of
\* iterations these values give. A C-style loop whose body assigns the
\* variable of its condition and step sees the assignment at the next step
\* and check.
C18_BoundsFixed ==
  /\ \A p \in 1..Len(stack) :
       LET f == stack[p] IN
         (f.lk = "counter" /\ IntHeader(loops[f.id])) =>
            LET r == loops[f.id]
                made == IF f.ph = "test" THEN f.iters ELSE f.iters - 1
            IN /\ << r.start, r.end, r.step >> = HeaderValues(r, r.envAt)
               /\ f.end = r.end /\ f.step = r.step
               /\ f.n = IntV(r.start.n + made * r.step.n)
               /\ BodyVals(f.id) = [q \in 1..f.iters |-> r.start.n + (q - 1) * r.step.n]
  /\ \A k \in 1..Len(loops) :
       (IntHeader(loops[k]) /\ loops[k].exited) =>
          Len(Bodies(k)) = TripCount(loops[k].start.n, loops[k].end.n, loops[k].step.n)
  /\ (prog = Rebind /\ status # "running") =>
       /\ status = "done"
       /\ loops[1].end = IntV(3) /\ env["x"] = IntV(0)
       /\ BodyVals(1) = <<1, 2, 3>>
       /\ OutVals = <<6, 7, 8, 8>>
  /\ (prog = CRebind /\ status # "running") =>
       /\ status = "done"
       /\ EventsOf(1, {"condT", "step", "condF"}) =
            << Event("condT", 1, BoolV(TRUE)), Event("step", 1, IntV(2)),
               Event("condF", 1, BoolV(FALSE)) >>
       /\ OutVals = <<1>>

\* The body assigned the loop variable and the variable the end was read
\* from on each of the three iterations the header's values give.
C18_Witness ==
  /\ prog = Rebind /\ status = "done"
  /\ Assigns(loops[1].block, "i") /\ Assigns(loops[1].block, "x")
  /\ loops[1].line.e2 = VarE("x")
  /\ loops[1].exited /\ BodyVals(1) = <<1, 2, 3>>
  /\ env["i"] = IntV(8) /\ env["x"] = IntV(0)

\* Execution is at a header that no terminator of the program text closes.
AtOpenHeader ==
  /\ AtLine /\ IsHeader(Cur)
  /\ FirstClose(Top.base + Top.i) = -1

\* C19: the step that executes a header of any of the three forms with no
\* matching terminator raises an error and leaves the Environment as it was:
\* the Counter or Iterator variable is not bound and the C-style init clause
\* is not executed.
C19_NoEndNoEffect ==
  [][ AtOpenHeader =>
        /\ status' = "error"
        /\ env' = env /\ out' = out /\ stack' = stack
        /\ log' = log ]_vars

\* After `x = 0`, the header `for (j = 0; j < 2; j = j + 1) do` without a
\* terminator has failed: x is bound, j is not.
C19_Witness ==
  /\ Len(prog) = 2 /\ prog[1] = AssignL("x", Lit(0))
  /\ status = "error" /\ err = MissingEnd
  /\ RX_FOR_CSTYLE(Cur) /\ do_assign(Cur.c1) = AssignC("j", Lit(0))
  /\ FirstClose(Top.base + Top.i) = -1
  /\ env = [EmptyEnv EXCEPT !["x"] = IntV(0)]

====
